---- MODULE Spec2Model ----
(***************************************************************************)
(* Model of preprocess.py, the data preparation script written out by the  *)
(* notebook SageMaker_Customer_Churn_XGB_end2end.ipynb (%%writefile cell,  *)
(* notebook lines 176-250), statement by statement: read_csv, drop,        *)
(* astype, drop, get_dummies, concat, sample + np.split, three to_csv.     *)
(*                                                                         *)
(* The customer data set is not part of the repository; the model reads a  *)
(* file whose header is drawn from a column universe holding one column of *)
(* each kind the script distinguishes: a string categorical ("State"), a   *)
(* numeric pass-through ("Account Length"), the numeric column re-cast to  *)
(* categorical ("Area Code"), the five discarded columns and "Churn?".     *)
(***************************************************************************)
EXTENDS Integers, Sequences, FiniteSets, TLC

VARIABLES
    input_file,       \* raw-data.csv: [header, records]
    outdirs,          \* output directories that exist under base_dir
    pc,               \* statement of preprocess.py about to run
    df,               \* the DataFrame df
    model_data,       \* the DataFrame model_data
    shuffled,         \* value of model_data.sample(frac=1, random_state=1729)
    train_data,       \* the three DataFrames bound by np.split
    validation_data,
    test_data,
    files,            \* train.csv / validation.csv / test.csv
    error,            \* exception that ended the run ("" when none)
    split_n,          \* split-index calculator: row count
    split_idx,        \* split-index calculator: computed indices
    split_sizes,      \* split-index calculator: lengths of the np.split parts
    predict_call,     \* a call of the notebook's predict(data, rows)
    notebook          \* the notebook's cells run top to bottom

vars == <<input_file, outdirs, pc, df, model_data, shuffled, train_data,
          validation_data, test_data, files, error, split_n, split_idx, split_sizes, predict_call, notebook>>

-----------------------------------------------------------------------------
(* Bounds *)

\* longest data set of the exhaustive input family
MaxRows == 2

\* longest data set of the cyclic input family
MaxN == 10

\* largest row count handed to the split-index calculator
MaxSplitN == 100

\* most records of an input file of the runs on large files
MaxBlockN == 91

-----------------------------------------------------------------------------
(* Helpers on sequences *)

Range(s) == {s[i] : i \in 1..Len(s)}

Min(a, b) == IF a < b THEN a ELSE b

\* s[lo+1 .. hi] of a Python slice s[lo:hi] with 0 <= lo, hi
Slice(s, lo, hi) ==
    LET h == Min(hi, Len(s))
    IN  IF lo >= h THEN <<>> ELSE SubSeq(s, lo + 1, h)

RECURSIVE Flatten(_)
Flatten(ss) == IF ss = <<>> THEN <<>> ELSE Head(ss) \o Flatten(Tail(ss))

Pow2(k) == 2 ^ k

-----------------------------------------------------------------------------
(* The input: column universe and raw records *)

AllColumns ==
    <<"State", "Account Length", "Area Code", "Phone", "Day Charge",
      "Eve Charge", "Night Charge", "Intl Charge", "Churn?">>

\* values of each varying column, in the sort order pandas gives them
StateValues == <<"KS", "OH">>
AccountLengthValues == <<1, 2>>
AreaCodeValues == <<408, 415>>
ChurnValues == <<"False.", "True.">>

\* columns read_csv infers as strings (dtype object) when rows are present
StringColumns == {"State", "Phone", "Churn?"}

RawRecord(state, acct, area, churn) ==
    [c \in Range(AllColumns) |->
        CASE c = "State" -> state
          [] c = "Account Length" -> acct
          [] c = "Area Code" -> area
          [] c = "Phone" -> "382-4657"
          [] c = "Churn?" -> churn
          [] OTHER -> 0]

RowKinds ==
    {RawRecord(s, l, a, c) : s \in Range(StateValues),
                             l \in Range(AccountLengthValues),
                             a \in Range(AreaCodeValues),
                             c \in Range(ChurnValues)}

NumKinds == Cardinality(RowKinds)

\* the k-th record kind, k in 0..NumKinds-1; churn is the top bit
KindAt(k) ==
    RawRecord(StateValues[(k % 2) + 1],
              AccountLengthValues[((k \div 2) % 2) + 1],
              AreaCodeValues[((k \div 4) % 2) + 1],
              ChurnValues[((k \div 8) % 2) + 1])

Strides == {1, 8}

\* data set of n records stepping through the kinds from k with stride s
CyclicRecords(n, k, s) == [i \in 1..n |-> KindAt((k + (i - 1) * s) % NumKinds)]

ExhaustiveRecords == UNION {[1..n -> RowKinds] : n \in 0..MaxRows}

Without(cols, c) == SelectSeq(cols, LAMBDA x : x # c)

MissingChoices == {"Phone", "Area Code", "Day Charge", "Churn?"}

\* complete header, header lacking one column, or no header (0-byte file)
HeaderChoices ==
    {AllColumns} \cup {Without(AllColumns, c) : c \in MissingChoices} \cup {<<>>}

Restrict(rec, cols) == [c \in Range(cols) |-> rec[c]]

CsvFile(header, records) ==
    [header |-> header,
     records |-> IF header = <<>> THEN <<>>
                 ELSE [i \in 1..Len(records) |-> Restrict(records[i], header)]]

OutputNames == {"train", "validation", "test"}

-----------------------------------------------------------------------------
(* DataFrames and the pandas calls the script makes *)

NoFrame == [columns |-> <<>>, dtypes |-> <<>>, index |-> <<>>, rows |-> <<>>]

\* drop(..., errors="ignore"): an absent label is not reported
HasColumnsIgnore(frame, labels) == TRUE

HasColumns(frame, labels) == \A l \in labels : l \in Range(frame.columns)

\* pd.read_csv(fn): default RangeIndex, dtype inferred per column; a column
\* with no values is object
read_csv(file) ==
    [columns |-> file.header,
     dtypes |-> [c \in Range(file.header) |->
                    IF Len(file.records) = 0 \/ c \in StringColumns
                    THEN "object" ELSE "int64"],
     index |-> [i \in 1..Len(file.records) |-> i - 1],
     rows |-> file.records]

\* frame.drop(labels, axis=1), defined when HasColumns(frame, labels)
drop(frame, labels) ==
    LET cols == SelectSeq(frame.columns, LAMBDA c : c \notin labels)
    IN  [columns |-> cols,
         dtypes |-> [c \in Range(cols) |-> frame.dtypes[c]],
         index |-> frame.index,
         rows |-> [i \in 1..Len(frame.rows) |->
                      [c \in Range(cols) |-> frame.rows[i][c]]]]

\* frame[col] = frame[col].astype(object)
astype_object(frame, col) ==
    [frame EXCEPT !.dtypes = [c \in Range(frame.columns) |->
                                 IF c = col THEN "object" ELSE frame.dtypes[c]]]

\* every value a column of the universe can hold, in sorted order
SortedDomain(col) ==
    CASE col = "State" -> StateValues
      [] col = "Account Length" -> AccountLengthValues
      [] col = "Area Code" -> AreaCodeValues
      [] col = "Phone" -> <<"382-4657">>
      [] col = "Churn?" -> ChurnValues
      [] OTHER -> <<0>>

\* a categorical dtype with fixed categories: every value the column can hold
LevelsAllCategories(frame, col) == SortedDomain(col)

\* the sorted categories of a column: the distinct observed values
Levels(frame, col) ==
    SelectSeq(SortedDomain(col),
              LAMBDA v : \E i \in 1..Len(frame.rows) : frame.rows[i][col] = v)

LevelName(col, v) == IF col \in StringColumns THEN v ELSE ToString(v)

\* name of an indicator column: prefix, "_", category
DummyName(col, v) == col \o "_" \o LevelName(col, v)

ObjectColumns(frame) == SelectSeq(frame.columns, LAMBDA c : frame.dtypes[c] = "object")

OtherColumns(frame) == SelectSeq(frame.columns, LAMBDA c : frame.dtypes[c] # "object")

\* get_dummies(..., drop_first=True): no indicator for the first category
DummiesOfDropFirst(frame, col) ==
    LET lv == Levels(frame, col) IN [k \in 1..(Len(lv) - 1) |-> <<col, lv[k + 1]>>]

\* the indicator columns of one encoded column, as <<column, level>> pairs
DummiesOf(frame, col) ==
    LET lv == Levels(frame, col) IN [k \in 1..Len(lv) |-> <<col, lv[k]>>]

\* pd.get_dummies(frame): columns that are not object first, unchanged, then
\* for each object column in column order one 0/1 indicator per category
get_dummies(frame) ==
    IF Len(ObjectColumns(frame)) = 0 THEN frame
    ELSE
    LET keep == OtherColumns(frame)
        enc == ObjectColumns(frame)
        dums == Flatten([k \in 1..Len(enc) |-> DummiesOf(frame, enc[k])])
        dnames == [k \in 1..Len(dums) |-> DummyName(dums[k][1], dums[k][2])]
        cols == keep \o dnames
        DummyAt(name) == CHOOSE k \in 1..Len(dums) : dnames[k] = name
        Cell(i, c) ==
            IF c \in Range(keep) THEN frame.rows[i][c]
            ELSE LET d == dums[DummyAt(c)]
                 IN  IF frame.rows[i][d[1]] = d[2] THEN 1 ELSE 0
    IN  [columns |-> cols,
         dtypes |-> [c \in Range(cols) |->
                        IF c \in Range(keep) THEN frame.dtypes[c] ELSE "uint8"],
         index |-> frame.index,
         rows |-> [i \in 1..Len(frame.rows) |-> [c \in Range(cols) |-> Cell(i, c)]]]

\* the label column concatenated after the remaining columns
concat_label_last(frame, label, dropped) ==
    LET rest == SelectSeq(frame.columns, LAMBDA c : c \notin dropped)
        cols == rest \o <<label>>
    IN  [columns |-> cols,
         dtypes |-> [c \in Range(cols) |-> frame.dtypes[c]],
         index |-> frame.index,
         rows |-> [i \in 1..Len(frame.rows) |->
                      [c \in Range(cols) |-> frame.rows[i][c]]]]

\* pd.concat([frame[label], frame.drop(dropped, axis=1)], axis=1)
concat_label(frame, label, dropped) ==
    LET rest == drop(frame, dropped)
        cols == <<label>> \o rest.columns
    IN  [columns |-> cols,
         dtypes |-> [c \in Range(cols) |-> frame.dtypes[c]],
         index |-> frame.index,
         rows |-> [i \in 1..Len(frame.rows) |->
                      [c \in Range(cols) |-> frame.rows[i][c]]]]

\* frame.take(locs): rows at the 0-based positions locs, index labels kept
take(frame, locs) ==
    [frame EXCEPT !.index = [i \in 1..Len(locs) |-> frame.index[locs[i] + 1]],
                  !.rows = [i \in 1..Len(locs) |-> frame.rows[locs[i] + 1]]]

\* frame.iloc[lo:hi]
iloc(frame, lo, hi) ==
    [frame EXCEPT !.index = Slice(frame.index, lo, hi),
                  !.rows = Slice(frame.rows, lo, hi)]

\* slices whose middle part starts one row early
np_split_overlap(frame, idx) ==
    <<iloc(frame, 0, idx[1]),
      iloc(frame, IF idx[1] > 0 THEN idx[1] - 1 ELSE 0, idx[2]),
      iloc(frame, idx[2], Len(frame.rows))>>

\* slices whose last part starts one row late
np_split_short(frame, idx) ==
    <<iloc(frame, 0, idx[1]),
      iloc(frame, idx[1], idx[2]),
      iloc(frame, idx[2] + 1, Len(frame.rows))>>

\* the tail block returned second and the middle block third
np_split_reordered(frame, idx) ==
    <<iloc(frame, 0, idx[1]),
      iloc(frame, idx[2], Len(frame.rows)),
      iloc(frame, idx[1], idx[2])>>

\* np.split(frame, [a, b]): frame[:a], frame[a:b], frame[b:]
np_split(frame, idx) ==
    <<iloc(frame, 0, idx[1]),
      iloc(frame, idx[1], idx[2]),
      iloc(frame, idx[2], Len(frame.rows))>>

\* indicator columns limited to the categories present in the frame written
to_csv_per_split(frame) ==
    LET cols == SelectSeq(frame.columns,
                          LAMBDA c : frame.dtypes[c] # "uint8" \/
                                     \E i \in 1..Len(frame.rows) : frame.rows[i][c] = 1)
    IN  [i \in 1..Len(frame.rows) |->
            [k \in 1..Len(cols) |-> frame.rows[i][cols[k]]]]

\* frame.to_csv(path, header=False, index=False): one line per row, the
\* values in column order, neither column names nor index labels
to_csv(frame) ==
    [i \in 1..Len(frame.rows) |->
        [k \in 1..Len(frame.columns) |-> frame.rows[i][frame.columns[k]]]]

-----------------------------------------------------------------------------
(* IEEE-754 double arithmetic of the split indices: int(0.7 * len(...)) *)

\* a positive double is mant * 2^exp, mant a little-endian bit string of at
\* most 53 bits whose top bit is 1; zero has the empty bit string
HexDigitBits(d) == <<d % 2, (d \div 2) % 2, (d \div 4) % 2, (d \div 8) % 2>>

RECURSIVE StripHighZeros(_)
StripHighZeros(bits) ==
    IF bits = <<>> \/ bits[Len(bits)] = 1 THEN bits
    ELSE StripHighZeros(SubSeq(bits, 1, Len(bits) - 1))

\* bit string of a hexadecimal numeral given most significant digit first
HexToBits(hex) ==
    StripHighZeros(Flatten([k \in 1..Len(hex) |-> HexDigitBits(hex[Len(hex) + 1 - k])]))

\* the literal 0.7 is the double 0x1.6666666666666p-1
Float07 == [mant |-> HexToBits(<<1, 6, 6, 6, 6, 6, 6, 6, 6, 6, 6, 6, 6, 6>>), exp |-> 0 - 53]

\* the literal 0.9 is the double 0x1.ccccccccccccdp-1
Float09 == [mant |-> HexToBits(<<1, 12, 12, 12, 12, 12, 12, 12, 12, 12, 12, 12, 12, 13>>), exp |-> 0 - 53]

RECURSIVE NatToBits(_)
NatToBits(k) == IF k = 0 THEN <<>> ELSE <<k % 2>> \o NatToBits(k \div 2)

RECURSIVE BitsToNat(_)
BitsToNat(bits) == IF bits = <<>> THEN 0 ELSE Head(bits) + 2 * BitsToNat(Tail(bits))

\* exact product of a bit string and a small natural number
RECURSIVE MulBits(_, _, _)
MulBits(bits, n, carry) ==
    IF bits = <<>> THEN NatToBits(carry)
    ELSE LET t == Head(bits) * n + carry
         IN  <<t % 2>> \o MulBits(Tail(bits), n, t \div 2)

RECURSIVE IncBits(_)
IncBits(bits) ==
    IF bits = <<>> THEN <<1>>
    ELSE IF Head(bits) = 0 THEN <<1>> \o Tail(bits)
    ELSE <<0>> \o IncBits(Tail(bits))

\* round an exact value bits * 2^exp to 53 significant bits, ties to even
RoundToDouble(bits, exp) ==
    IF Len(bits) <= 53 THEN [mant |-> bits, exp |-> exp]
    ELSE LET d == Len(bits) - 53
             kept == SubSeq(bits, d + 1, Len(bits))
             sticky == \E i \in 1..(d - 1) : bits[i] = 1
             up == bits[d] = 1 /\ (sticky \/ kept[1] = 1)
             m == IF up THEN IncBits(kept) ELSE kept
         IN  IF Len(m) = 54 THEN [mant |-> Tail(m), exp |-> exp + d + 1]
             ELSE [mant |-> m, exp |-> exp + d]

\* x * n for a double x and a Python int n (n converts to double exactly)
float_mul_int(x, n) ==
    IF n = 0 THEN [mant |-> <<>>, exp |-> 0]
    ELSE RoundToDouble(MulBits(x.mant, n, 0), x.exp)

\* round(x): nearest integer instead of truncation
int_of_float_round(x) ==
    IF x.mant = <<>> THEN 0
    ELSE IF x.exp >= 0 THEN BitsToNat(x.mant) * Pow2(x.exp)
    ELSE BitsToNat(Slice(x.mant, 0 - x.exp, Len(x.mant))) +
         (IF 0 - x.exp <= Len(x.mant) THEN x.mant[0 - x.exp] ELSE 0)

\* int(x): truncation toward zero of a non-negative double
int_of_float(x) ==
    IF x.mant = <<>> THEN 0
    ELSE IF x.exp >= 0 THEN BitsToNat(x.mant) * Pow2(x.exp)
    ELSE BitsToNat(Slice(x.mant, 0 - x.exp, Len(x.mant)))

\* the two fractions in the opposite order
SplitIndicesSwapped(n) ==
    <<int_of_float(float_mul_int(Float09, n)), int_of_float(float_mul_int(Float07, n))>>

\* [int(0.7 * len(model_data)), int(0.9 * len(model_data))]
SplitIndices(n) ==
    <<int_of_float(float_mul_int(Float07, n)), int_of_float(float_mul_int(Float09, n))>>

-----------------------------------------------------------------------------
(* model_data.sample(frac=1, random_state=1729) *)

\* low seven bits of the successive 32-bit outputs of MT19937 seeded with 1729
MT19937_1729 ==
    <<13, 102, 115, 37, 21, 126, 67, 13, 89, 59, 35, 65, 91, 36, 105, 73,
      111, 93, 83, 43, 86, 44, 19, 51, 76, 112, 123, 12, 26, 125, 43, 0,
      105, 42, 53, 30, 65, 3, 65, 37, 114, 68, 64, 87, 91, 4, 70, 119,
      10, 50, 40, 34, 32, 103, 13, 105, 7, 100, 93, 79, 16, 98, 1, 35,
      12, 12, 92, 33, 123, 42, 39, 51, 73, 26, 115, 115, 103, 53, 66, 89,
      109, 38, 8, 41, 1, 111, 80, 64, 109, 47, 87, 14, 112, 41, 101, 108,
      13, 93, 45, 58, 91, 44, 95, 104, 6, 12, 79, 77, 114, 124, 80, 93,
      58, 59, 62, 47, 106, 14, 70, 21, 59, 112, 118, 20, 39, 20, 118, 45,
      53, 63, 52, 75, 100, 40, 56, 4, 25, 25, 102, 117, 53, 83, 4, 10,
      0, 20, 46, 91, 102, 31, 69, 62, 115, 85, 12, 110, 79, 88, 59, 63>>

\* np.random.RandomState(random_state): the output streams it can produce
RandomState(random_state) == {MT19937_1729}

RECURSIVE MaskFrom(_, _)
MaskFrom(m, max) == IF m >= max THEN m ELSE MaskFrom(2 * m + 1, max)

\* random_interval(max): draw until (output & mask) <= max; <<value, next pos>>
RECURSIVE random_interval(_, _, _)
random_interval(stream, pos, max) ==
    LET v == stream[pos] % (MaskFrom(0, max) + 1)
    IN  IF v <= max THEN <<v, pos + 1>> ELSE random_interval(stream, pos + 1, max)

Swap(arr, i, j) == [arr EXCEPT ![i] = arr[j], ![j] = arr[i]]

\* for i in reversed(range(1, n)): j = random_interval(i); swap arr[i], arr[j]
\* (the inner test holds at every step: a draw moves the stream on and a swap
\* keeps the length; it has each step evaluated before the next is taken)
RECURSIVE ShuffleFrom(_, _, _, _)
ShuffleFrom(arr, i, pos, stream) ==
    IF i < 1 THEN arr
    ELSE LET r == random_interval(stream, pos, i)
             swapped == Swap(arr, i + 1, r[1] + 1)
         IN  IF Len(swapped) = Len(arr) /\ r[2] > pos
             THEN ShuffleFrom(swapped, i - 1, r[2], stream)
             ELSE arr

\* RandomState.permutation(n): shuffle of arange(n)
permutation(n, stream) == ShuffleFrom([k \in 1..n |-> k - 1], n - 1, 1, stream)

\* frame.sample(frac=1, random_state=...): all rows in permuted order
sample(frame, stream) == take(frame, permutation(Len(frame.rows), stream))

-----------------------------------------------------------------------------
(* Parts of the notebook outside preprocess.py, idle while the script runs *)

NoPredict ==
    [pc |-> "idle", data |-> <<>>, rows |-> 0, split_array |-> <<>>, next |-> 0,
     predictions |-> <<>>, sent |-> <<>>, result |-> <<>>, error |-> ""]

\* the stages of the notebook, in the order of its cells
Stages == <<"upload", "processing", "training", "deploy", "invoke">>

NoNotebook ==
    [cell |-> "idle", bucket |-> "", job_name |-> "",
     status |-> [s \in Range(Stages) |-> "none"],
     description |-> <<>>, s3_input_train |-> "", s3_input_validation |-> "",
     train_input |-> <<>>, validation_input |-> <<>>, channels |-> <<>>]

-----------------------------------------------------------------------------
(* The script as a state machine *)

NotWritten == [written |-> FALSE, lines |-> <<>>]

NoFiles == [name \in OutputNames |-> NotWritten]

InputRecords ==
    ExhaustiveRecords \cup
    {CyclicRecords(n, k, s) : n \in (MaxRows + 1)..MaxN, k \in 0..(NumKinds - 1), s \in Strides}

\* state at the start of a run of the script
Fresh ==
    /\ pc = "read_csv"
    /\ df = NoFrame
    /\ model_data = NoFrame
    /\ shuffled = NoFrame
    /\ train_data = NoFrame
    /\ validation_data = NoFrame
    /\ test_data = NoFrame
    /\ files = NoFiles
    /\ error = ""

Init ==
    /\ \E h \in HeaderChoices, recs \in InputRecords : input_file = CsvFile(h, recs)
    /\ outdirs \in SUBSET OutputNames
    /\ input_file.header # AllColumns => outdirs = OutputNames
    /\ Fresh
    /\ split_n = 0
    /\ split_idx = <<>>
    /\ split_sizes = <<>>
    /\ predict_call = NoPredict
    /\ notebook = NoNotebook

Goto(next) == pc' = next /\ error' = error

Raise(exc) == pc' = "failed" /\ error' = exc

\* df = pd.read_csv(fn)
ReadCsv ==
    /\ pc = "read_csv"
    /\ IF input_file.header = <<>>
       THEN Raise("EmptyDataError") /\ df' = df
       ELSE Goto("drop_phone") /\ df' = read_csv(input_file)
    /\ UNCHANGED <<input_file, outdirs, model_data, shuffled, train_data,
                   validation_data, test_data, files, split_n, split_idx, split_sizes, predict_call, notebook>>

\* df = df.drop(["Phone"], axis=1)
DropPhone ==
    /\ pc = "drop_phone"
    /\ IF HasColumns(df, {"Phone"})
       THEN Goto("astype") /\ df' = drop(df, {"Phone"})
       ELSE Raise("KeyError") /\ df' = df
    /\ UNCHANGED <<input_file, outdirs, model_data, shuffled, train_data,
                   validation_data, test_data, files, split_n, split_idx, split_sizes, predict_call, notebook>>

\* df["Area Code"] = df["Area Code"].astype(object)
AstypeAreaCode ==
    /\ pc = "astype"
    /\ IF HasColumns(df, {"Area Code"})
       THEN Goto("drop_charges") /\ df' = astype_object(df, "Area Code")
       ELSE Raise("KeyError") /\ df' = df
    /\ UNCHANGED <<input_file, outdirs, model_data, shuffled, train_data,
                   validation_data, test_data, files, split_n, split_idx, split_sizes, predict_call, notebook>>

ChargeColumns == {"Day Charge", "Eve Charge", "Night Charge", "Intl Charge"}

\* df = df.drop(["Day Charge", "Eve Charge", "Night Charge", "Intl Charge"], axis=1)
DropCharges ==
    /\ pc = "drop_charges"
    /\ IF HasColumns(df, ChargeColumns)
       THEN Goto("get_dummies") /\ df' = drop(df, ChargeColumns)
       ELSE Raise("KeyError") /\ df' = df
    /\ UNCHANGED <<input_file, outdirs, model_data, shuffled, train_data,
                   validation_data, test_data, files, split_n, split_idx, split_sizes, predict_call, notebook>>

\* model_data = pd.get_dummies(df)
GetDummies ==
    /\ pc = "get_dummies"
    /\ Goto("concat")
    /\ model_data' = get_dummies(df)
    /\ UNCHANGED <<input_file, outdirs, df, shuffled, train_data,
                   validation_data, test_data, files, split_n, split_idx, split_sizes, predict_call, notebook>>

LabelColumn == "Churn?_True."

ChurnDummies == {"Churn?_False.", "Churn?_True."}

\* model_data = pd.concat([model_data["Churn?_True."],
\*     model_data.drop(["Churn?_False.", "Churn?_True."], axis=1)], axis=1)
ConcatLabel ==
    /\ pc = "concat"
    /\ IF HasColumns(model_data, {LabelColumn}) /\ HasColumns(model_data, ChurnDummies)
       THEN Goto("split") /\ model_data' = concat_label(model_data, LabelColumn, ChurnDummies)
       ELSE Raise("KeyError") /\ model_data' = model_data
    /\ UNCHANGED <<input_file, outdirs, df, shuffled, train_data,
                   validation_data, test_data, files, split_n, split_idx, split_sizes, predict_call, notebook>>

Seed == 1729

\* train_data, validation_data, test_data = np.split(
\*     model_data.sample(frac=1, random_state=1729),
\*     [int(0.7 * len(model_data)), int(0.9 * len(model_data))])
Split ==
    /\ pc = "split"
    /\ \E stream \in RandomState(Seed) :
          LET sh == sample(model_data, stream)
              parts == np_split(sh, SplitIndices(Len(model_data.rows)))
          IN  /\ shuffled' = sh
              /\ train_data' = parts[1]
              /\ validation_data' = parts[2]
              /\ test_data' = parts[3]
    /\ Goto("write_train")
    /\ UNCHANGED <<input_file, outdirs, df, model_data, files, split_n, split_idx, split_sizes, predict_call, notebook>>

\* pd.DataFrame(frame).to_csv(f"{base_dir}/<name>/<name>.csv", header=False,
\* index=False): OSError when the directory does not exist
Write(at, name, frame, next) ==
    /\ pc = at
    /\ IF name \in outdirs
       THEN Goto(next) /\ files' = [files EXCEPT ![name] = [written |-> TRUE, lines |-> to_csv(frame)]]
       ELSE Raise("OSError") /\ files' = files
    /\ UNCHANGED <<input_file, outdirs, df, model_data, shuffled, train_data,
                   validation_data, test_data, split_n, split_idx, split_sizes, predict_call, notebook>>

WriteTrain == Write("write_train", "train", train_data, "write_validation")

WriteValidation == Write("write_validation", "validation", validation_data, "write_test")

WriteTest == Write("write_test", "test", test_data, "done")

Next ==
    \/ ReadCsv
    \/ DropPhone
    \/ AstypeAreaCode
    \/ DropCharges
    \/ GetDummies
    \/ ConcatLabel
    \/ Split
    \/ WriteTrain
    \/ WriteValidation
    \/ WriteTest

Spec == Init /\ [][Next]_vars

-----------------------------------------------------------------------------
(* The script on files of many records *)

\* row counts around the first one whose product with 0.7 rounds below the
\* exact product, and a small one
BlockRows == {MaxN} \cup (MaxBlockN - 2)..MaxBlockN

BlockInit ==
    /\ \E n \in BlockRows, k \in 0..1, s \in Strides :
          input_file = CsvFile(AllColumns, CyclicRecords(n, k, s))
    /\ outdirs \in SUBSET OutputNames
    /\ Fresh
    /\ split_n = 0
    /\ split_idx = <<>>
    /\ split_sizes = <<>>
    /\ predict_call = NoPredict
    /\ notebook = NoNotebook

BlockSpec == BlockInit /\ [][Next]_vars

-----------------------------------------------------------------------------
(* The split indices alone, over larger row counts *)

SplitInit ==
    /\ split_n \in 0..MaxSplitN
    /\ split_idx = <<>>
    /\ split_sizes = <<>>
    /\ predict_call = NoPredict
    /\ notebook = NoNotebook
    /\ input_file = CsvFile(<<>>, <<>>)
    /\ outdirs = {}
    /\ pc = "indices"
    /\ df = NoFrame
    /\ model_data = NoFrame
    /\ shuffled = NoFrame
    /\ train_data = NoFrame
    /\ validation_data = NoFrame
    /\ test_data = NoFrame
    /\ files = NoFiles
    /\ error = ""

\* a frame of n rows without columns, index 0..n-1
RangeFrame(n) ==
    [columns |-> <<>>, dtypes |-> <<>>, index |-> [i \in 1..n |-> i - 1],
     rows |-> [i \in 1..n |-> <<>>]]

\* np.split(frame, [int(0.7 * len(frame)), int(0.9 * len(frame))]) on a frame
\* of split_n rows
ComputeIndices ==
    /\ pc = "indices"
    /\ split_idx' = SplitIndices(split_n)
    /\ split_sizes' =
          LET parts == np_split(RangeFrame(split_n), SplitIndices(split_n))
          IN  [k \in 1..3 |-> Len(parts[k].rows)]
    /\ pc' = "sliced"
    /\ UNCHANGED <<input_file, outdirs, df, model_data, shuffled, train_data,
                   validation_data, test_data, files, error, split_n, predict_call, notebook>>

SplitNext == ComputeIndices

SplitSpec == SplitInit /\ [][SplitNext]_vars

-----------------------------------------------------------------------------
(* Properties *)

Ended == pc \in {"done", "failed"}

\* np.split has bound train_data, validation_data and test_data
SplitDone ==
    \/ pc \in {"write_train", "write_validation", "write_test", "done"}
    \/ pc = "failed" /\ error = "OSError"

FrameOf(name) ==
    CASE name = "train" -> train_data
      [] name = "validation" -> validation_data
      [] name = "test" -> test_data

RowSet(frame) == Range(frame.rows)

LabelSet(frame) == Range(frame.index)

NumRows == Len(model_data.rows)

\* the line to_csv writes for an encoded row
LineOf(row) == [k \in 1..Len(model_data.columns) |-> row[model_data.columns[k]]]

\* C1 (as claimed): after the split the row values of train, validation and
\* test are pairwise disjoint sets and their union is the set of rows of
\* the encoded data set, also when two records encode to the same row.
C1_RowValuesDisjoint ==
    SplitDone =>
        /\ RowSet(train_data) \cap RowSet(validation_data) = {}
        /\ RowSet(train_data) \cap RowSet(test_data) = {}
        /\ RowSet(validation_data) \cap RowSet(test_data) = {}
        /\ RowSet(train_data) \cup RowSet(validation_data) \cup RowSet(test_data)
              = RowSet(model_data)

\* C1 (amended): after the split every row position of the encoded data set
\* is in exactly one split, once, carrying the values of that row, and the
\* union of the splits' row values is the set of encoded rows.
C1_PositionsPartition ==
    SplitDone =>
        /\ LabelSet(train_data) \cap LabelSet(validation_data) = {}
        /\ LabelSet(train_data) \cap LabelSet(test_data) = {}
        /\ LabelSet(validation_data) \cap LabelSet(test_data) = {}
        /\ LabelSet(train_data) \cup LabelSet(validation_data) \cup LabelSet(test_data)
              = 0..(NumRows - 1)
        /\ \A name \in OutputNames :
              /\ Cardinality(LabelSet(FrameOf(name))) = Len(FrameOf(name).index)
              /\ Len(FrameOf(name).rows) = Len(FrameOf(name).index)
              /\ \A i \in 1..Len(FrameOf(name).index) :
                    FrameOf(name).rows[i] = model_data.rows[FrameOf(name).index[i] + 1]
        /\ RowSet(train_data) \cup RowSet(validation_data) \cup RowSet(test_data)
              = RowSet(model_data)

\* two records that encode to the same row were written to different splits
C1_Witness ==
    /\ pc = "done"
    /\ RowSet(train_data) \cap (RowSet(validation_data) \cup RowSet(test_data)) # {}

\* C2: after the split len(train) + len(validation) + len(test) is the
\* number of encoded rows, and so is the number of lines of the three files
\* of a completed run.
C2_LengthsSum ==
    /\ SplitDone =>
          Len(train_data.rows) + Len(validation_data.rows) + Len(test_data.rows) = NumRows
    /\ pc = "done" =>
          Len(files["train"].lines) + Len(files["validation"].lines)
             + Len(files["test"].lines) = NumRows

C2_Witness ==
    /\ pc = "done"
    /\ Len(files["train"].lines) > 0
    /\ Len(files["validation"].lines) > 0
    /\ Len(files["test"].lines) > 0

\* C3 (as claimed): for n rows the split indices are floor(7n/10) and
\* floor(9n/10) and the split sizes follow from them.
C3_ExactTruncation ==
    pc = "sliced" =>
        LET a == (7 * split_n) \div 10
            b == (9 * split_n) \div 10
        IN  /\ split_idx = <<a, b>>
            /\ split_sizes = <<a, b - a, split_n - b>>

\* C3 (amended): the indices are the truncated double products 0.7*n and
\* 0.9*n.  The second is floor(9n/10); the first is floor(7n/10) for every
\* n < 90 and otherwise floor(7n/10) or, only for a multiple of 10, one
\* less.  The sizes are (a, b - a, n - b); n = 10 gives (7, 2, 1).
C3_DoubleTruncation ==
    pc = "sliced" =>
        LET a == (7 * split_n) \div 10
            b == (9 * split_n) \div 10
        IN  /\ split_idx[2] = b
            /\ split_n < 90 => split_idx[1] = a
            /\ \/ split_idx[1] = a
               \/ split_idx[1] = a - 1 /\ split_n % 10 = 0
            /\ split_sizes = <<split_idx[1], split_idx[2] - split_idx[1],
                               split_n - split_idx[2]>>
            /\ split_n = 10 => split_sizes = <<7, 2, 1>>

C3_Witness == pc = "sliced" /\ split_n = 10 /\ split_sizes = <<7, 2, 1>>

\* C5: every line of every written file has one value per column of the
\* encoded data set, in the column order of the encoded data set, and the
\* three splits carry exactly those columns.
C5_SameLayout ==
    /\ SplitDone =>
          \A name \in OutputNames : FrameOf(name).columns = model_data.columns
    /\ \A name \in OutputNames :
          files[name].written =>
              /\ Len(files[name].lines) = Len(FrameOf(name).rows)
              /\ \A i \in 1..Len(files[name].lines) :
                    files[name].lines[i]
                       = LineOf(model_data.rows[FrameOf(name).index[i] + 1])

\* a written, non-empty split has no row of a category another split has
C5_Witness ==
    /\ pc = "done"
    /\ \E c \in Range(model_data.columns), name \in OutputNames :
          /\ model_data.dtypes[c] = "uint8"
          /\ c # LabelColumn
          /\ Len(FrameOf(name).rows) > 0
          /\ \A i \in 1..Len(FrameOf(name).rows) : FrameOf(name).rows[i][c] = 0
          /\ \E i \in 1..NumRows : model_data.rows[i][c] = 1

\* C6: the first value of every written line is 0 or 1, and is 1 exactly
\* when the record the line comes from has "Churn?" = "True."; no column
\* after the first is a churn indicator column.
C6_LabelFirst ==
    \A name \in OutputNames :
        files[name].written =>
            /\ \A k \in 2..Len(model_data.columns) :
                  model_data.columns[k] \notin ChurnDummies
            /\ \A i \in 1..Len(files[name].lines) :
                  /\ Len(files[name].lines[i]) = Len(model_data.columns)
                  /\ files[name].lines[i][1] \in {0, 1}
                  /\ files[name].lines[i][1] = 1 <=>
                        input_file.records[FrameOf(name).index[i] + 1]["Churn?"] = "True."

C6_Witness ==
    /\ pc = "done"
    /\ \E i \in 1..Len(files["train"].lines) : files["train"].lines[i][1] = 1
    /\ \E i \in 1..Len(files["train"].lines) : files["train"].lines[i][1] = 0

\* the input has a header, and "Phone" is not in it
LacksPhone == input_file.header # <<>> /\ "Phone" \notin Range(input_file.header)

\* C7: when the input has no "Phone" column the run stops at the drop of
\* "Phone" with the error of an absent column (pandas raises KeyError; the
\* script defines no exception type of its own), and no file is written.
C7_MissingPhone ==
    LacksPhone =>
        /\ pc \in {"read_csv", "drop_phone", "failed"}
        /\ files = NoFiles
        /\ pc = "failed" => (error = "KeyError" /\ df.columns = input_file.header)

C7_Witness ==
    /\ LacksPhone
    /\ pc = "failed"
    /\ error = "KeyError"
    /\ Len(input_file.records) > 0

\* C8: a run that has ended, with or without an exception, has written all
\* three files or none.
C8_AllOrNothing ==
    Ended =>
        \/ \A name \in OutputNames : files[name].written
        \/ \A name \in OutputNames : ~files[name].written

\* C9: a run on a well-formed input of fewer than four records (too few for
\* three non-empty splits), with every output directory present, ends with
\* an exception and without a file.
C9_SmallRejected ==
    (/\ Ended
     /\ input_file.header = AllColumns
     /\ outdirs = OutputNames
     /\ Len(input_file.records) < 4)
        => (pc = "failed" /\ files = NoFiles)

Lines(lo, hi) == [i \in 1..(hi - lo) |-> LineOf(shuffled.rows[lo + i])]

\* the splits and the written files are the rows [0, a), [a, b) and [b, n)
\* of the shuffled frame, which holds every encoded row once
BlocksAt(a, b) ==
    LET Block(lo, hi) == [i \in 1..(hi - lo) |-> shuffled.rows[lo + i]]
    IN  /\ SplitDone =>
              /\ Len(shuffled.rows) = NumRows
              /\ Len(shuffled.index) = NumRows
              /\ LabelSet(shuffled) = 0..(NumRows - 1)
              /\ \A i \in 1..NumRows :
                    shuffled.rows[i] = model_data.rows[shuffled.index[i] + 1]
              /\ train_data.rows = Block(0, a)
              /\ validation_data.rows = Block(a, b)
              /\ test_data.rows = Block(b, NumRows)
              /\ train_data.index \o validation_data.index \o test_data.index
                    = shuffled.index
        /\ files["train"].written => files["train"].lines = Lines(0, a)
        /\ files["validation"].written => files["validation"].lines = Lines(a, b)
        /\ files["test"].written => files["test"].lines = Lines(b, NumRows)

\* C10 (as claimed): train, validation and test are the rows [0, a), [a, b)
\* and [b, n) of the shuffled frame with a = floor(7n/10) and
\* b = floor(9n/10), and each written file lists its block in that order.
C10_ExactBlocks == BlocksAt((7 * NumRows) \div 10, (9 * NumRows) \div 10)

\* C10 (amended): the same with a and b the truncated double products
\* 0.7*n and 0.9*n: b is floor(9n/10); a is floor(7n/10) for every n < 90
\* and otherwise floor(7n/10) or, only for a multiple of 10, one less.
C10_ContiguousBlocks ==
    LET idx == SplitIndices(NumRows)
        a == (7 * NumRows) \div 10
    IN  /\ BlocksAt(idx[1], idx[2])
        /\ idx[2] = (9 * NumRows) \div 10
        /\ NumRows < 90 => idx[1] = a
        /\ idx[1] = a \/ (idx[1] = a - 1 /\ NumRows % 10 = 0)

C10_Witness ==
    /\ pc = "done"
    /\ NumRows = 90
    /\ shuffled.index # model_data.index
    /\ Len(files["train"].lines) = 62
    /\ Len(files["validation"].lines) = 19
    /\ files["validation"].lines # Lines(63, 81)

\* get_dummies has bound model_data and concat has not yet replaced it
JustEncoded == pc = "concat"

\* concat has put the label first and dropped the churn indicators
LabelPlaced == pc = "split" \/ SplitDone

Observed(col) == {df.rows[i][col] : i \in 1..Len(df.rows)}

DiscardColumns == {"Phone"} \cup ChargeColumns

\* C11: the encoded frame has, for every categorical column of the cleaned
\* frame (Area Code included), one indicator column per observed value and
\* no other, each row holding 1 in the indicator of its own value and 0 in
\* the others; the other columns keep their values; no discard column is
\* left.  After the concat the same holds with the indicator of "False."
\* removed and the indicator of "True." first.
C11_Encoding ==
    (JustEncoded \/ LabelPlaced) =>
        /\ Len(model_data.rows) = Len(df.rows)
        /\ Cardinality(Range(model_data.columns)) = Len(model_data.columns)
        /\ \A c \in DiscardColumns : c \notin Range(df.columns)
        /\ \A c \in DiscardColumns \cup {"State", "Area Code", "Churn?"} :
              c \notin Range(model_data.columns)
        /\ \A c \in Range(df.columns) :
              IF df.dtypes[c] = "object"
              THEN \A v \in Range(SortedDomain(c)) :
                      LET name == DummyName(c, v)
                          kept == ~(LabelPlaced /\ name = "Churn?_False.")
                      IN  /\ name \in Range(model_data.columns) <=> (v \in Observed(c) /\ kept)
                          /\ name \in Range(model_data.columns) =>
                                \A i \in 1..Len(df.rows) :
                                    /\ model_data.rows[i][name] \in {0, 1}
                                    /\ model_data.rows[i][name] = 1 <=> df.rows[i][c] = v
              ELSE /\ c \in Range(model_data.columns)
                   /\ \A i \in 1..Len(df.rows) : model_data.rows[i][c] = df.rows[i][c]
        /\ Len(model_data.columns) =
              Cardinality({c \in Range(df.columns) : df.dtypes[c] # "object"})
              + Cardinality(UNION {{<<c, v>> : v \in Observed(c)} :
                                      c \in {d \in Range(df.columns) : df.dtypes[d] = "object"}})
              - (IF LabelPlaced THEN 1 ELSE 0)

C11_Witness ==
    /\ pc = "done"
    /\ df.dtypes["Area Code"] = "object"
    /\ Cardinality(Observed("Area Code")) = 2
    /\ Cardinality(Observed("State")) = 2
    /\ Cardinality(Observed("Account Length")) = 2
    /\ {"Area Code_408", "Area Code_415", "State_KS", "State_OH", "Account Length"}
          \subseteq Range(model_data.columns)

\* a well-formed input with records, all of one churn value
SingleChurn ==
    /\ input_file.header = AllColumns
    /\ Len(input_file.records) >= 1
    /\ Cardinality({input_file.records[i]["Churn?"] : i \in 1..Len(input_file.records)}) = 1

\* C13: when every record has the same churn value the run goes no further
\* than the concat, where it ends with a KeyError for the churn indicator
\* that get_dummies did not create, and no file is written.
C13_SingleChurnFails ==
    SingleChurn =>
        /\ pc \in {"read_csv", "drop_phone", "astype", "drop_charges",
                   "get_dummies", "concat", "failed"}
        /\ files = NoFiles
        /\ pc = "failed" =>
              /\ error = "KeyError"
              /\ Cardinality(ChurnDummies \cap Range(model_data.columns)) = 1
              /\ Len(model_data.rows) = Len(input_file.records)

C13_Witness ==
    /\ SingleChurn
    /\ Len(input_file.records) >= 2
    /\ pc = "failed"
    /\ error = "KeyError"
    /\ LabelColumn \in Range(model_data.columns)

\* C14: for every row count n the split indices satisfy 0 <= a <= b <= n;
\* test is non-empty from n = 1, train from n = 2, all three from n = 4;
\* for n = 2 and n = 3 validation is empty.
C14_IndexOrder ==
    pc = "sliced" =>
        /\ 0 <= split_idx[1]
        /\ split_idx[1] <= split_idx[2]
        /\ split_idx[2] <= split_n
        /\ split_n >= 1 => split_sizes[3] >= 1
        /\ split_n >= 2 => split_sizes[1] >= 1
        /\ split_n >= 4 => \A k \in 1..3 : split_sizes[k] >= 1
        /\ split_n \in {2, 3} => split_sizes[2] = 0
        /\ split_sizes[1] + split_sizes[2] + split_sizes[3] = split_n

C14_Witness == pc = "sliced" /\ split_n = 3 /\ split_sizes = <<2, 0, 1>>

-----------------------------------------------------------------------------
(* predict(data, rows): batched invocation of the endpoint *)

\* most rows of a data array handed to predict
MaxPredictN == 4

\* largest value of the rows parameter
MaxBatchRows == 3

\* feature values of a row of the data array
FeatureValues == 0..2

\* int(data.shape[0] / float(rows) + 1); the quotient of two small integers
\* is at least 1/rows away from the next integer, so the double division
\* and addition truncate to floor(n / rows) + 1
NumSections(n, rows) == (n \div rows) + 1

\* np.array_split(ary, k): the first len % k sections hold len div k + 1
\* rows, the others len div k
array_split(ary, k) ==
    LET each == Len(ary) \div k
        extras == Len(ary) % k
        DivPoint(j) == j * each + Min(j, extras)
    IN  [j \in 1..k |-> Slice(ary, DivPoint(j - 1), DivPoint(j))]

\* CSVSerializer().serialize(array), the serializer given to xgb.deploy:
\* ValueError("Cannot serialize empty array") for an array without rows
serialize(array) ==
    IF Len(array) = 0 THEN [raised |-> "ValueError", body |-> <<>>]
    ELSE [raised |-> "", body |-> array]

\* the score the deployed model gives a row; the model is a function of the
\* row, which one does not matter to the batching
Score(x) == 2 * x + 1

\* a text of comma separated fields is the sequence of its fields: the empty
\* text has one empty field
CsvText(values) ==
    IF values = <<>> THEN <<"">> ELSE [i \in 1..Len(values) |-> ToString(values[i])]

\* the endpoint's answer to a request body of one or more rows, decoded:
\* one score per row
EndpointResponse(body) == CsvText([i \in 1..Len(body) |-> Score(body[i])])

\* ",".join([a, b])
join(a, b) == a \o b

\* text[1:] of a text that is empty or starts with the separator
DropFirstChar(text) == IF Len(text) > 1 /\ text[1] = "" THEN Tail(text) ELSE text

ParseNumber(field) ==
    CHOOSE v \in {Score(x) : x \in FeatureValues} : ToString(v) = field

RECURSIVE fromstring(_)
\* np.fromstring(text, sep=","): numbers up to the end or the first field
\* that is no number
fromstring(text) ==
    IF text = <<>> \/ Head(text) = "" THEN <<>>
    ELSE <<ParseNumber(Head(text))>> \o fromstring(Tail(text))

PredictInit ==
    /\ \E n \in 0..MaxPredictN, rows \in 1..MaxBatchRows :
          \E data \in [1..n -> FeatureValues] :
              predict_call = [NoPredict EXCEPT !.pc = "array_split", !.data = data,
                                               !.rows = rows]
    /\ notebook = NoNotebook
    /\ split_n = 0
    /\ split_idx = <<>>
    /\ split_sizes = <<>>
    /\ input_file = CsvFile(<<>>, <<>>)
    /\ outdirs = {}
    /\ pc = "predict"
    /\ df = NoFrame
    /\ model_data = NoFrame
    /\ shuffled = NoFrame
    /\ train_data = NoFrame
    /\ validation_data = NoFrame
    /\ test_data = NoFrame
    /\ files = NoFiles
    /\ error = ""

OnlyPredict ==
    UNCHANGED <<input_file, outdirs, pc, df, model_data, shuffled, train_data,
                validation_data, test_data, files, error, split_n, split_idx, split_sizes, notebook>>

\* split_array = np.array_split(data, int(data.shape[0] / float(rows) + 1))
\* predictions = ''
PredictSplit ==
    /\ predict_call.pc = "array_split"
    /\ predict_call' =
          [predict_call EXCEPT
              !.split_array = array_split(predict_call.data,
                                          NumSections(Len(predict_call.data), predict_call.rows)),
              !.next = 1,
              !.predictions = CsvText(<<>>),
              !.pc = "for"]
    /\ OnlyPredict

\* for array in split_array:
\*     predictions = ','.join([predictions, xgb_predictor.predict(array).decode('utf-8')])
\* xgb_predictor.predict serializes the array, then invokes the endpoint; an
\* exception of either leaves predict, which catches none
PredictBatch ==
    /\ predict_call.pc = "for"
    /\ predict_call.next <= Len(predict_call.split_array)
    /\ LET array == predict_call.split_array[predict_call.next]
           request == serialize(array)
       IN  IF request.raised # ""
           THEN predict_call' = [predict_call EXCEPT !.pc = "raised",
                                                     !.error = request.raised]
           ELSE \E ok \in BOOLEAN :
                   predict_call' =
                      IF ok
                      THEN [predict_call EXCEPT
                               !.sent = Append(@, request.body),
                               !.predictions = join(@, EndpointResponse(request.body)),
                               !.next = @ + 1]
                      ELSE [predict_call EXCEPT
                               !.sent = Append(@, request.body),
                               !.pc = "raised",
                               !.error = "ModelError"]
    /\ OnlyPredict

\* return np.fromstring(predictions[1:], sep=',')
PredictReturn ==
    /\ predict_call.pc = "for"
    /\ predict_call.next > Len(predict_call.split_array)
    /\ predict_call' =
          [predict_call EXCEPT
              !.result = fromstring(DropFirstChar(predict_call.predictions)),
              !.pc = "returned"]
    /\ OnlyPredict

PredictNext == PredictSplit \/ PredictBatch \/ PredictReturn

PredictSpec == PredictInit /\ [][PredictNext]_vars

PredictEnded == predict_call.pc \in {"returned", "raised"}

\* C15: unless the endpoint fails a request, predict returns, having sent
\* the n rows in floor(n / rows) + 1 batches that are consecutive runs of
\* the rows, every row in one batch, none of more than `rows` rows; the
\* result is the batches' answers in row order, one score per row.
C15_Batches ==
    LET n == Len(predict_call.data)
    IN  (PredictEnded /\ predict_call.error # "ModelError") =>
            /\ predict_call.pc = "returned"
            /\ Len(predict_call.sent) = (n \div predict_call.rows) + 1
            /\ Flatten(predict_call.sent) = predict_call.data
            /\ \A b \in 1..Len(predict_call.sent) :
                  Len(predict_call.sent[b]) <= predict_call.rows
            /\ predict_call.result = [i \in 1..n |-> Score(predict_call.data[i])]

-----------------------------------------------------------------------------
(* The cells of the notebook, run from the first to the last *)

\* sagemaker_session.default_bucket()
Buckets == {"sagemaker-eu-west-1-1", "sagemaker-us-east-1-1", "sagemaker-us-east-1-2"}

\* the name the SDK gives the processing job it starts
JobNames == {"sagemaker-scikit-learn-1", "sagemaker-scikit-learn-2", "sagemaker-scikit-learn-3"}

\* outputs=[ProcessingOutput(output_name="train", ...), ...] in the order given
ProcessingOutputs == <<"train", "validation", "test">>

\* where the SDK puts an output that names no destination
OutputUri(bucket, job_name, output_name) ==
    "s3://" \o bucket \o "/" \o job_name \o "/output/" \o output_name

\* sklearn_processor.jobs[-1].describe()
describe(bucket, job_name) ==
    [ProcessingJobName |-> job_name,
     Outputs |-> [i \in 1..Len(ProcessingOutputs) |->
                     [OutputName |-> ProcessingOutputs[i],
                      S3Uri |-> OutputUri(bucket, job_name, ProcessingOutputs[i])]]]

\* description['ProcessingOutputConfig']['Outputs'][i]['S3Output']['S3Uri']
S3UriOf(description, i) == description.Outputs[i + 1].S3Uri

\* TrainingInput(s3_data, content_type=content_type)
TrainingInput(s3_data, content_type) == [s3_data |-> s3_data, content_type |-> content_type]

NotebookInit ==
    /\ \E bucket \in Buckets :
          notebook = [NoNotebook EXCEPT !.cell = "aws s3 cp", !.bucket = bucket]
    /\ predict_call = NoPredict
    /\ split_n = 0
    /\ split_idx = <<>>
    /\ split_sizes = <<>>
    /\ input_file = CsvFile(<<>>, <<>>)
    /\ outdirs = {}
    /\ pc = "notebook"
    /\ df = NoFrame
    /\ model_data = NoFrame
    /\ shuffled = NoFrame
    /\ train_data = NoFrame
    /\ validation_data = NoFrame
    /\ test_data = NoFrame
    /\ files = NoFiles
    /\ error = ""

OnlyNotebook ==
    UNCHANGED <<input_file, outdirs, pc, df, model_data, shuffled, train_data,
                validation_data, test_data, files, error, split_n, split_idx, split_sizes, predict_call>>

\* a blocking call of a cell begins
Begin(cell, stage, running) ==
    /\ notebook.cell = cell
    /\ notebook' = [notebook EXCEPT !.status[stage] = "running", !.cell = running]

\* a blocking SDK call returns, or raises and ends the run of the notebook
Return(running, stage, ok, next) ==
    /\ notebook.cell = running
    /\ notebook' = [notebook EXCEPT
                       !.status[stage] = IF ok THEN "completed" ELSE "failed",
                       !.cell = IF ok THEN next ELSE "raised"]

\* !aws s3 cp s3://sagemaker-sample-files/.../churn.txt s3://{bucket}/.../RawData.csv
StartUpload ==
    /\ Begin("aws s3 cp", "upload", "copying")
    /\ OnlyNotebook

\* the shell command ends; the cell has run whatever its exit status
FinishUpload ==
    /\ notebook.cell = "copying"
    /\ \E ok \in BOOLEAN :
          notebook' = [notebook EXCEPT
                          !.status["upload"] = IF ok THEN "completed" ELSE "failed",
                          !.cell = "run"]
    /\ OnlyNotebook

\* sklearn_processor.run(code="preprocess.py", inputs=[...], outputs=[...])
StartProcessing ==
    /\ notebook.cell = "run"
    /\ \E job_name \in JobNames :
          notebook' = [notebook EXCEPT !.status["processing"] = "running",
                                       !.job_name = job_name,
                                       !.cell = "processing"]
    /\ OnlyNotebook

FinishProcessing ==
    /\ \E ok \in BOOLEAN : Return("processing", "processing", ok, "describe")
    /\ OnlyNotebook

\* preprocessing_job_description = sklearn_processor.jobs[-1].describe()
Describe ==
    /\ notebook.cell = "describe"
    /\ notebook' = [notebook EXCEPT
                       !.description = describe(notebook.bucket, notebook.job_name),
                       !.cell = "s3_input_train"]
    /\ OnlyNotebook

\* s3_input_train = preprocessing_job_description[...]['Outputs'][0]['S3Output']['S3Uri']
ReadTrainUri ==
    /\ notebook.cell = "s3_input_train"
    /\ notebook' = [notebook EXCEPT
                       !.s3_input_train = S3UriOf(notebook.description, 0),
                       !.cell = "s3_input_validation"]
    /\ OnlyNotebook

\* s3_input_validation = preprocessing_job_description[...]['Outputs'][1]['S3Output']['S3Uri']
ReadValidationUri ==
    /\ notebook.cell = "s3_input_validation"
    /\ notebook' = [notebook EXCEPT
                       !.s3_input_validation = S3UriOf(notebook.description, 1),
                       !.cell = "TrainingInput"]
    /\ OnlyNotebook

\* train_input = TrainingInput(s3_input_train, content_type=content_type)
\* validation_input = TrainingInput(s3_input_validation, content_type=content_type)
MakeTrainingInputs ==
    /\ notebook.cell = "TrainingInput"
    /\ notebook' = [notebook EXCEPT
                       !.train_input = TrainingInput(notebook.s3_input_train, "csv"),
                       !.validation_input = TrainingInput(notebook.s3_input_validation, "csv"),
                       !.cell = "fit"]
    /\ OnlyNotebook

\* xgb.fit({'train': train_input, 'validation': validation_input})
StartTraining ==
    /\ notebook.cell = "fit"
    /\ notebook' = [notebook EXCEPT
                       !.status["training"] = "running",
                       !.channels = [train |-> notebook.train_input,
                                     validation |-> notebook.validation_input],
                       !.cell = "training"]
    /\ OnlyNotebook

FinishTraining ==
    /\ \E ok \in BOOLEAN : Return("training", "training", ok, "deploy")
    /\ OnlyNotebook

\* xgb_predictor = xgb.deploy(initial_instance_count = 1, ...)
StartDeploy ==
    /\ Begin("deploy", "deploy", "deploying")
    /\ OnlyNotebook

FinishDeploy ==
    /\ \E ok \in BOOLEAN : Return("deploying", "deploy", ok, "predict")
    /\ OnlyNotebook

\* predictions = predict(test_data.to_numpy()[:1,1:])
StartInvoke ==
    /\ Begin("predict", "invoke", "predicting")
    /\ OnlyNotebook

FinishInvoke ==
    /\ \E ok \in BOOLEAN : Return("predicting", "invoke", ok, "end")
    /\ OnlyNotebook

NotebookNext ==
    \/ StartUpload
    \/ FinishUpload
    \/ StartProcessing
    \/ FinishProcessing
    \/ Describe
    \/ ReadTrainUri
    \/ ReadValidationUri
    \/ MakeTrainingInputs
    \/ StartTraining
    \/ FinishTraining
    \/ StartDeploy
    \/ FinishDeploy
    \/ StartInvoke
    \/ FinishInvoke

NotebookSpec == NotebookInit /\ [][NotebookNext]_vars

Started(stage) == notebook.status[stage] # "none"

\* C12: the stages run in the order upload, processing job, training job,
\* deployment, invocation, each started only once the one before it has
\* completed; the training job's train and validation channels are the
\* train and validation output locations of the processing job, and the
\* test output location is given to no channel.
C12_StagesInOrder ==
    /\ \A i \in 2..Len(Stages) :
          Started(Stages[i]) => notebook.status[Stages[i - 1]] = "completed"
    /\ Started("training") =>
          /\ notebook.channels.train.s3_data =
                OutputUri(notebook.bucket, notebook.job_name, "train")
          /\ notebook.channels.validation.s3_data =
                OutputUri(notebook.bucket, notebook.job_name, "validation")
          /\ \A c \in DOMAIN notebook.channels :
                notebook.channels[c].s3_data #
                    OutputUri(notebook.bucket, notebook.job_name, "test")

====
